---- MODULE Spec2Model ----
(***************************************************************************)
(* Model of the DocuFlow service: the FAISS-backed vector store            *)
(* (src/vector_db/faiss_store.py), the governed route_from_search pipeline *)
(* (src/app/main.py) with its permission guard (src/security), workflow    *)
(* router and executor (src/workflow) and the audit logger (src/audit).    *)
(*                                                                         *)
(* Request threads run the handlers step by step; a step is one access to  *)
(* shared state (the in-memory index, the ledger, the lock, the two        *)
(* persisted artifacts, the audit file) together with the thread-local     *)
(* computation that precedes it.                                           *)
(*                                                                         *)
(* Texts are sequences of words; "x in text" of the source is containment  *)
(* of the word x.  Python's None/absent dictionary keys are absent record  *)
(* fields.                                                                 *)
(***************************************************************************)
EXTENDS Integers, Sequences, FiniteSets, TLC

VARIABLES
    index,      \* self.index: the vectors held by the in-memory FAISS index
    metadata,   \* self.metadata: the in-memory ledger (list of dicts)
    diskIndex,  \* the file data/store.index
    diskMeta,   \* the file data/metadata.json
    lock,       \* FAISSStore._lock: the thread holding it, or NoThread
    auditLog,   \* the file audit_logs/workflow_audit.jsonl, one record per line
    rules,      \* WorkflowRouter.rules, loaded once at construction
    clock,      \* datetime.utcnow(): number of readings taken so far
    pc,         \* per thread: the statement it is about to run
    frame,      \* per thread: the locals of the running handler
    calls,      \* number of handler calls started so far
    faults      \* number of I/O failures injected so far

vars == <<index, metadata, diskIndex, diskMeta, lock, auditLog, rules, clock,
          pc, frame, calls, faults>>

storeVars == <<index, metadata, diskIndex, diskMeta>>

----------------------------------------------------------------------------
(* Bounds of the model *)

MaxCalls == 3      \* handler calls started in one behaviour
MaxFaults == 1     \* injected I/O failures in one behaviour

(* Program constants *)

EMBEDDING_DIM == 384

Threads == {"t1", "t2"}
NoThread == "none"

----------------------------------------------------------------------------
(* Values *)

\* Python dict helpers
Has(m, k) == k \in DOMAIN m

\* dict.setdefault(k, v): the dict after the call
SetDefault(m, k, v) == IF Has(m, k) THEN m ELSE m @@ (k :> v)

\* "w in text" for a text given as a sequence of words
Contains(text, w) == \E i \in 1..Len(text) : text[i] = w

\* the words used by the inputs, with the code the embedding model gives them
WordCode(w) ==
    CASE w = "urgent"  -> 1
      [] w = "payment" -> 2
      [] w = "overdue" -> 4
      [] w = "hello"   -> 8
      [] OTHER         -> 16

RECURSIVE SumCodes(_)
SumCodes(text) ==
    IF text = << >> THEN 0 ELSE WordCode(Head(text)) + SumCodes(Tail(text))

\* get_embedding: [] for empty text, else the model's vector (a point of
\* dimension EMBEDDING_DIM, deterministic in the text)
get_embedding(text) ==
    IF text = << >> THEN [d |-> 0, x |-> 0]
    ELSE [d |-> EMBEDDING_DIM, x |-> SumCodes(text)]

\* FAISSStore._embed_text: the list becomes a float32 array of shape (1, d)
embed_text(text) == get_embedding(text)

\* json.dumps raises TypeError on a value json cannot encode
NotJSON == "<set>"
Serializable(rec) == ~(Has(rec, "extra") /\ rec.extra = NotJSON)
AllSerializable(recs) == \A i \in 1..Len(recs) : Serializable(recs[i])

----------------------------------------------------------------------------
(* Persisted artifacts *)

\* a file that exists: holding a complete dump, or left truncated/partial
FileOf(d) == [exists |-> TRUE, valid |-> TRUE, data |-> d]
PartialFile == [exists |-> TRUE, valid |-> FALSE, data |-> << >>]

\* _persist_index: faiss.write_index(self.index, INDEX_PATH)
WriteIndexStale(idx) ==
    FileOf(IF idx = << >> THEN idx ELSE SubSeq(idx, 1, Len(idx) - 1))
WriteIndex(idx) == FileOf(idx)

\* _persist_metadata: json.dump(self.metadata, f); every modelled field value
\* is a JSON string or number, which json.load gives back unchanged
WriteMetadata(recs) == FileOf(recs)

\* FAISSStore.__init__ run on the artifacts (di, dm): whether construction
\* succeeds and the index and ledger it holds
Startup(di, dm) ==
    LET idxOk == ~di.exists \/ di.valid
        metaOk == ~dm.exists \/ dm.valid
    IN  [ok |-> idxOk /\ metaOk,
         index |-> IF di.exists /\ di.valid THEN di.data ELSE << >>,
         metadata |-> IF dm.exists /\ dm.valid THEN dm.data ELSE << >>]

----------------------------------------------------------------------------
(* Inputs *)

TextA == <<"payment", "overdue">>
TextB == <<"urgent">>
Empty == << >>

\* arguments of add_document: raw text, or a metadata dict
AddDocumentInputs ==
    { [kind |-> "str", text |-> TextA],
      [kind |-> "str", text |-> Empty],
      [kind |-> "dict", meta |-> [text |-> TextB, vector_id |-> 7]],
      [kind |-> "dict", meta |-> [text |-> TextB, extra |-> NotJSON]],
      [kind |-> "dict", meta |-> [source_file |-> "a.txt"]],
      [kind |-> "other"] }

\* arguments the /faiss/add endpoint passes on (FAISSAddRequest.text)
FaissAddInputs == { [kind |-> "str", text |-> TextA] }

\* arguments of add_embeddings
AddEmbeddingsInputs ==
    { [embs |-> <<embed_text(TextA)>>,
       metas |-> <<[text |-> TextA]>>],
      [embs |-> <<embed_text(TextA), embed_text(TextB)>>,
       metas |-> <<[text |-> TextA, source_file |-> "a.txt"],
                   [text |-> TextB, source_file |-> "b.txt"]>>],
      [embs |-> <<embed_text(TextB)>>,
       metas |-> << >>] }

Idle == [op |-> "idle"]

----------------------------------------------------------------------------
(* The store lock *)

LockIgnored == TRUE
LockAvailable == lock = NoThread

Snapshot == [index |-> index, metadata |-> metadata,
             diskIndex |-> diskIndex, diskMeta |-> diskMeta]

\* "with self._lock:" entered
Acquire(t, next) ==
    /\ LockAvailable
    /\ lock' = t
    /\ pc' = [pc EXCEPT ![t] = next]
    /\ frame' = [frame EXCEPT ![t] = frame[t] @@ [snap |-> Snapshot]]

\* an exception leaves the handler (the with block, if entered, releases the lock)
RaiseFrom(t, e) ==
    /\ pc' = [pc EXCEPT ![t] = "raised"]
    /\ frame' = [frame EXCEPT ![t] = [frame[t] EXCEPT !.exc = e]]

----------------------------------------------------------------------------
(* FAISSStore.add_document *)

\* self.index.add(x): the index after adding the rows of x
IndexAddFirstOnly(idx, embs) == IF embs = << >> THEN idx ELSE Append(idx, embs[1])
IndexAdd(idx, embs) == idx \o embs

\* faiss asserts the dimension of the rows before it adds any
DimOkUnchecked(embs) == TRUE
DimOk(embs) == \A i \in 1..Len(embs) : embs[i].d = EMBEDDING_DIM

\* lines 100-109: dispatch on the argument's type, then _embed_text(text)
AddDocumentCall(t, arg) ==
    /\ pc[t] = "idle"
    /\ calls < MaxCalls
    /\ calls' = calls + 1
    /\ IF arg.kind = "other"
       THEN /\ pc' = [pc EXCEPT ![t] = "raised"]
            /\ frame' = [frame EXCEPT ![t] =
                   [op |-> "add_document", kind |-> arg.kind, exc |-> "ValueError"]]
       ELSE LET meta == IF arg.kind = "str" THEN [text |-> arg.text] ELSE arg.meta
            IN  IF ~Has(meta, "text")
                THEN \* text is None: get_embedding subscripts it
                     /\ pc' = [pc EXCEPT ![t] = "raised"]
                     /\ frame' = [frame EXCEPT ![t] =
                            [op |-> "add_document", kind |-> arg.kind,
                             exc |-> "TypeError"]]
                ELSE /\ pc' = [pc EXCEPT ![t] = "ad_lock"]
                     /\ frame' = [frame EXCEPT ![t] =
                            [op |-> "add_document", kind |-> arg.kind,
                             meta |-> meta, emb |-> embed_text(meta.text),
                             exc |-> "none"]]
    /\ UNCHANGED <<storeVars, lock, auditLog, rules, clock, faults>>

\* line 111
AddDocumentLock(t) ==
    /\ pc[t] = "ad_lock"
    /\ Acquire(t, "ad_index_add")
    /\ UNCHANGED <<storeVars, auditLog, rules, clock, calls, faults>>

\* line 112
AddDocumentIndexAdd(t) ==
    /\ pc[t] = "ad_index_add"
    /\ IF DimOk(<<frame[t].emb>>)
       THEN /\ index' = IndexAdd(index, <<frame[t].emb>>)
            /\ pc' = [pc EXCEPT ![t] = "ad_setdefault"]
            /\ UNCHANGED <<frame, lock>>
       ELSE /\ RaiseFrom(t, "AssertionError")
            /\ lock' = NoThread
            /\ UNCHANGED index
    /\ UNCHANGED <<metadata, diskIndex, diskMeta, auditLog, rules, clock, calls, faults>>

\* lines 114-115
AddDocumentSetDefault(t) ==
    /\ pc[t] = "ad_setdefault"
    /\ frame' = [frame EXCEPT ![t].meta =
           SetDefault(SetDefault(@, "created_at", clock), "vector_id", Len(metadata))]
    /\ clock' = clock + 1
    /\ pc' = [pc EXCEPT ![t] = "ad_append"]
    /\ UNCHANGED <<storeVars, lock, auditLog, rules, calls, faults>>

\* line 117
AddDocumentAppend(t) ==
    /\ pc[t] = "ad_append"
    /\ metadata' = Append(metadata, frame[t].meta)
    /\ pc' = [pc EXCEPT ![t] = "ad_persist_index"]
    /\ UNCHANGED <<index, diskIndex, diskMeta, lock, frame, auditLog, rules, clock,
                   calls, faults>>

----------------------------------------------------------------------------
(* FAISSStore.add_embeddings *)

\* lines 133-136: the length check
AddEmbeddingsCall(t, arg) ==
    /\ pc[t] = "idle"
    /\ calls < MaxCalls
    /\ calls' = calls + 1
    /\ IF Len(arg.embs) # Len(arg.metas)
       THEN /\ pc' = [pc EXCEPT ![t] = "raised"]
            /\ frame' = [frame EXCEPT ![t] =
                   [op |-> "add_embeddings", exc |-> "ValueError"]]
       ELSE /\ pc' = [pc EXCEPT ![t] = "ae_lock"]
            /\ frame' = [frame EXCEPT ![t] =
                   [op |-> "add_embeddings", embs |-> arg.embs, metas |-> arg.metas,
                    start_id |-> 0, i |-> 0, exc |-> "none"]]
    /\ UNCHANGED <<storeVars, lock, auditLog, rules, clock, faults>>

\* line 138
AddEmbeddingsLock(t) ==
    /\ pc[t] = "ae_lock"
    /\ Acquire(t, "ae_index_add")
    /\ UNCHANGED <<storeVars, auditLog, rules, clock, calls, faults>>

\* lines 139-141
AddEmbeddingsIndexAdd(t) ==
    /\ pc[t] = "ae_index_add"
    /\ IF DimOk(frame[t].embs)
       THEN /\ index' = IndexAdd(index, frame[t].embs)
            /\ frame' = [frame EXCEPT ![t].start_id = Len(metadata)]
            /\ pc' = [pc EXCEPT ![t] = "ae_loop"]
            /\ UNCHANGED lock
       ELSE /\ RaiseFrom(t, "AssertionError")
            /\ lock' = NoThread
            /\ UNCHANGED index
    /\ UNCHANGED <<metadata, diskIndex, diskMeta, auditLog, rules, clock, calls, faults>>

\* lines 143-146: one iteration of the loop over enumerate(metadatas), or its end
AddEmbeddingsLoop(t) ==
    /\ pc[t] = "ae_loop"
    /\ LET i == frame[t].i IN
       IF i < Len(frame[t].metas)
       THEN LET meta == SetDefault(SetDefault(frame[t].metas[i + 1], "created_at", clock),
                                   "vector_id", frame[t].start_id + i)
            IN  /\ metadata' = Append(metadata, meta)
                /\ clock' = clock + 1
                /\ frame' = [frame EXCEPT ![t].i = i + 1]
                /\ UNCHANGED pc
       ELSE /\ pc' = [pc EXCEPT ![t] = "ae_persist_index"]
            /\ UNCHANGED <<metadata, clock, frame>>
    /\ UNCHANGED <<index, diskIndex, diskMeta, lock, auditLog, rules, calls, faults>>

----------------------------------------------------------------------------
(* Persistence, shared by add_document and add_embeddings *)

\* self._persist_index() inside the with block
PersistIndex(t) ==
    /\ pc[t] \in {"ad_persist_index", "ae_persist_index"}
    /\ diskIndex' = WriteIndex(index)
    /\ pc' = [pc EXCEPT ![t] =
           IF pc[t] = "ad_persist_index" THEN "ad_persist_meta" ELSE "ae_persist_meta"]
    /\ UNCHANGED <<index, metadata, diskMeta, lock, frame, auditLog, rules, clock,
                   calls, faults>>

\* faiss.write_index fails (disk full, permissions): it raises and leaves the
\* file as it was (open failed) or truncated (write failed)
PersistIndexFailsHoldingLock(t) ==
    /\ pc[t] \in {"ad_persist_index", "ae_persist_index"}
    /\ faults < MaxFaults
    /\ faults' = faults + 1
    /\ diskIndex' \in {diskIndex, PartialFile}
    /\ RaiseFrom(t, "IOError")
    /\ UNCHANGED <<index, metadata, diskMeta, lock, auditLog, rules, clock, calls>>
PersistIndexFails(t) ==
    /\ pc[t] \in {"ad_persist_index", "ae_persist_index"}
    /\ faults < MaxFaults
    /\ faults' = faults + 1
    /\ diskIndex' \in {diskIndex, PartialFile}
    /\ RaiseFrom(t, "IOError")
    /\ lock' = NoThread
    /\ UNCHANGED <<index, metadata, diskMeta, auditLog, rules, clock, calls>>

\* self._persist_metadata() inside the with block, then the block's exit.
\* open(..., "w") truncates; json.dump raises TypeError on a value it cannot
\* encode and leaves what it had written.
PersistMetadata(t) ==
    /\ pc[t] \in {"ad_persist_meta", "ae_persist_meta"}
    /\ lock' = NoThread
    /\ IF AllSerializable(metadata)
       THEN /\ diskMeta' = WriteMetadata(metadata)
            /\ pc' = [pc EXCEPT ![t] = "returned"]
            /\ UNCHANGED frame
       ELSE /\ diskMeta' = PartialFile
            /\ RaiseFrom(t, "TypeError")
    /\ UNCHANGED <<index, metadata, diskIndex, auditLog, rules, clock, calls, faults>>

\* open or write of metadata.json fails: as for the index file
PersistMetadataFails(t) ==
    /\ pc[t] \in {"ad_persist_meta", "ae_persist_meta"}
    /\ faults < MaxFaults
    /\ faults' = faults + 1
    /\ lock' = NoThread
    /\ diskMeta' \in {diskMeta, PartialFile}
    /\ RaiseFrom(t, "IOError")
    /\ UNCHANGED <<index, metadata, diskIndex, auditLog, rules, clock, calls>>

\* the handler's caller takes the result or the exception; the thread is free
Return(t) ==
    /\ pc[t] \in {"returned", "raised"}
    /\ pc' = [pc EXCEPT ![t] = "idle"]
    /\ frame' = [frame EXCEPT ![t] = Idle]
    /\ UNCHANGED <<storeVars, lock, auditLog, rules, clock, calls, faults>>

----------------------------------------------------------------------------
(* security/roles.py, security/guard.py *)

Role == {"viewer", "operator", "manager", "admin"}

ROLE_CAPABILITIES ==
    [r \in Role |->
        CASE r = "viewer"   -> {"view_search_results"}
          [] r = "operator" -> {"view_search_results", "execute_workflow"}
          [] r = "manager"  -> {"view_search_results", "execute_workflow",
                                "override_route", "view_audit_logs"}
          [] r = "admin"    -> {"view_search_results", "execute_workflow",
                                "override_route", "view_audit_logs", "manage_rules"}]

\* capability in ROLE_CAPABILITIES.get(role, set())
role_has_capabilityViewerDefault(role, capability) ==
    capability \in (IF role \in DOMAIN ROLE_CAPABILITIES
                    THEN ROLE_CAPABILITIES[role] ELSE ROLE_CAPABILITIES["viewer"])
role_has_capability(role, capability) ==
    capability \in (IF role \in DOMAIN ROLE_CAPABILITIES
                    THEN ROLE_CAPABILITIES[role] ELSE {})

\* the exception enforce_permission raises, "none" if it returns.  The class
\* it raises is the PermissionDenied(Exception) defined in security/guard.py.
enforce_permissionAllowAll(role, capability) == "none"
enforce_permission(role, capability) ==
    IF ~role_has_capability(role, capability)
    THEN "security.guard.PermissionDenied" ELSE "none"

----------------------------------------------------------------------------
(* app/errors.py: the classes an exception is an instance of *)

ClassesOf(e) ==
    CASE e = "app.errors.PermissionDenied" ->
             {"app.errors.PermissionDenied", "DocuFlowError", "Exception"}
      [] e = "NoRouteMatched"     -> {"NoRouteMatched", "DocuFlowError", "Exception"}
      [] e = "EmptySearchResults" -> {"EmptySearchResults", "DocuFlowError", "Exception"}
      [] OTHER                    -> {e, "Exception"}

IsInstance(e, cls) == cls \in ClassesOf(e)

\* str(e) for the exceptions route_from_search raises itself; a message is
\* the sequence of its pieces
Message(e) ==
    CASE e = "EmptySearchResults" -> <<"No relevant documents found">>
      [] e = "NoRouteMatched"     -> <<"No workflow rule matched">>
      [] OTHER                    -> << >>

\* str(e) of the guard's exception
DeniedMessage(role, capability) ==
    <<"Role '", role, "' is not allowed to perform '", capability, "'">>

----------------------------------------------------------------------------
(* audit/events.py is not part of the sources: the event kinds are those   *)
(* the design names                                                        *)

ROUTE_DECISION == "decision"
ROUTE_EXECUTED == "executed"
ROUTE_DENIED == "denied"
ROUTE_FAILED == "failed"

\* AuditLogger.log: the line appended for (event, payload).  req is not in
\* the file: it names the request whose thread wrote the line.
AuditRecord(event, payload, req) ==
    [event |-> event, timestamp |-> clock, payload |-> payload, req |-> req]

\* open(self.log_path, "a") and one write of the line
LogAppendTruncating(log, rec) == <<rec>>
LogAppend(log, rec) == Append(log, rec)

----------------------------------------------------------------------------
(* main.classify_text, workflow/router.py, workflow/executor.py *)

EmptyDict == << >>

Lower(w) ==
    CASE w = "URGENT"  -> "urgent"
      [] w = "Payment" -> "payment"
      [] OTHER         -> w

LowerText(text) == [i \in 1..Len(text) |-> Lower(text[i])]

\* clean_text lower-cases; the label is decided by the words present
classify_text(text) ==
    LET cleaned == LowerText(text)
    IN  IF Contains(cleaned, "urgent") THEN "urgent"
        ELSE IF Contains(cleaned, "payment") THEN "payment_request"
        ELSE "general"

\* does the rule's "when" accept (classification, text)?
RuleMatches(rule, classification, text) ==
    LET conditions == IF Has(rule, "when") THEN rule.when ELSE EmptyDict
    IN  /\ Has(conditions, "classification")
              => classification = conditions.classification
        /\ Has(conditions, "keyword_contains")
              => \E i \in 1..Len(conditions.keyword_contains) :
                     Contains(LowerText(text), Lower(conditions.keyword_contains[i]))

RECURSIVE RouteFrom(_, _, _, _)
RouteFrom(rs, routes, classification, text) ==
    IF routes = << >>
    THEN IF Has(rs, "default_route") THEN rs.default_route ELSE EmptyDict
    ELSE IF RuleMatches(Head(routes), classification, text)
         THEN IF Has(Head(routes), "route") THEN Head(routes).route ELSE EmptyDict
         ELSE RouteFrom(rs, Tail(routes), classification, text)

\* WorkflowRouter.route
routeLastMatch(rs, classification, text) ==
    LET routes == IF Has(rs, "routes") THEN rs.routes ELSE << >>
    IN  RouteFrom(rs, [i \in 1..Len(routes) |-> routes[Len(routes) + 1 - i]],
                  classification, text)
route(rs, classification, text) ==
    RouteFrom(rs, IF Has(rs, "routes") THEN rs.routes ELSE << >>, classification, text)

\* WorkflowExecutor.execute: the result record
ExecutionResultNoWebhook(decision) ==
    LET action == IF Has(decision, "action") THEN decision.action ELSE "log"
    IN  IF action \in {"queue", "tag", "log"}
        THEN [action |-> action, status |-> "completed", message |-> "done"]
        ELSE [action |-> action, status |-> "ignored",
              message |-> <<"Unknown action: ", action>>]
ExecutionResult(decision) ==
    LET action == IF Has(decision, "action") THEN decision.action ELSE "log"
    IN  CASE action = "queue" ->
                 [action |-> action, status |-> "completed",
                  message |-> "Item queued for processing"]
          [] action = "tag" ->
                 [action |-> action, status |-> "completed",
                  message |-> "Metadata tag applied"]
          [] action = "log" ->
                 [action |-> action, status |-> "completed",
                  message |-> "Logged only (no side effects)"]
          [] action = "webhook" ->
                 [action |-> action, status |-> "completed",
                  message |-> "Webhook execution placeholder"]
          [] OTHER ->
                 [action |-> action, status |-> "ignored",
                  message |-> <<"Unknown action: ", action>>]

\* the rule files the router is constructed from
UrgentRules ==
    [routes |-> << [when |-> [classification |-> "urgent"],
                    route |-> [action |-> "queue"]] >>,
     default_route |-> [action |-> "log"]]

PaymentRules ==
    [routes |-> << [when |-> [keyword_contains |-> <<"Payment">>],
                    route |-> [action |-> "tag"]] >>]

RuleSets == {UrgentRules, PaymentRules}

----------------------------------------------------------------------------
(* FAISSStore.search *)

\* squared L2 distance of two vectors of the same dimension
L2(a, b) == (a.x - b.x) * (a.x - b.x)

\* index.search(q, k): k (id, distance) pairs, nearest first, padded with
\* id -1 when the index holds fewer than k vectors
RECURSIVE Nearest(_, _, _, _)
Nearest(idx, q, k, taken) ==
    IF k <= 0 THEN << >>
    ELSE LET cand == (1..Len(idx)) \ taken
         IN  IF cand = {}
             THEN <<[id |-> -1, dist |-> -1]>> \o Nearest(idx, q, k - 1, taken)
             ELSE LET best == CHOOSE i \in cand : \A j \in cand :
                                  \/ L2(idx[i], q) < L2(idx[j], q)
                                  \/ L2(idx[i], q) = L2(idx[j], q) /\ i <= j
                  IN  <<[id |-> best - 1, dist |-> L2(idx[best], q)]>>
                      \o Nearest(idx, q, k - 1, taken \cup {best})

IndexSearch(idx, q, k) == Nearest(idx, q, k, {})

----------------------------------------------------------------------------
(* main.route_from_search *)

RouteRequests ==
    { [query |-> Empty, top_k |-> 1],
      [query |-> <<"urgent">>, top_k |-> 1],
      [query |-> <<"payment", "overdue">>, top_k |-> 2],
      [query |-> <<"payment", "overdue">>, top_k |-> 0] }

\* the request used where the role varies
UrgentRequest == [query |-> <<"urgent">>, top_k |-> 1]

\* lines 227-234: the role, then enforce_permission.  In the service the
\* role is Role.OPERATOR.
RouteCall(t, req, role) ==
    /\ pc[t] = "idle"
    /\ calls < MaxCalls
    /\ calls' = calls + 1
    /\ LET e == enforce_permission(role, "execute_workflow")
       IN  /\ pc' = [pc EXCEPT ![t] = IF e = "none" THEN "rs_search" ELSE "rs_except"]
           /\ frame' = [frame EXCEPT ![t] =
                  [op |-> "route_from_search", req |-> calls + 1, role |-> role,
                   query |-> req.query, top_k |-> req.top_k, exc |-> e,
                   msg |-> IF e = "none" THEN << >>
                           ELSE DeniedMessage(role, "execute_workflow"),
                   executed |-> FALSE]]
    /\ UNCHANGED <<storeVars, lock, auditLog, rules, clock, faults>>

\* hybrid_search lines 100-105 with FAISSStore.search lines 161-167: embed the
\* query, return [] on an empty index, else ask the index for top_k neighbours
RouteSearch(t) ==
    /\ pc[t] = "rs_search"
    /\ LET q == embed_text(frame[t].query)
       IN  IF Len(index) = 0
           THEN \* search returns [], hybrid_search returns [], line 244 raises
                /\ pc' = [pc EXCEPT ![t] = "rs_except"]
                /\ frame' = [frame EXCEPT ![t].exc = "EmptySearchResults",
                                      ![t].msg = Message("EmptySearchResults")]
           ELSE IF q.d # EMBEDDING_DIM \/ frame[t].top_k <= 0
           THEN \* faiss asserts the query's dimension and k > 0
                /\ pc' = [pc EXCEPT ![t] = "rs_except"]
                /\ frame' = [frame EXCEPT ![t].exc = "AssertionError"]
           ELSE /\ pc' = [pc EXCEPT ![t] = "rs_collect"]
                /\ frame' = [frame EXCEPT ![t] = frame[t] @@
                       [hits |-> IndexSearch(index, q, frame[t].top_k),
                        j |-> 0, results |-> << >>]]
    /\ UNCHANGED <<storeVars, lock, auditLog, rules, clock, calls, faults>>

\* FAISSStore.search lines 170-174, one iteration; after the last one
\* hybrid_search's result is tested (line 243), the query classified and routed
RouteCollect(t) ==
    /\ pc[t] = "rs_collect"
    /\ LET j == frame[t].j IN
       IF j < Len(frame[t].hits)
       THEN LET h == frame[t].hits[j + 1]
            IN  /\ frame' = [frame EXCEPT ![t].j = j + 1,
                       ![t].results =
                           IF 0 <= h.id /\ h.id < Len(metadata)
                           THEN Append(@, metadata[h.id + 1] @@ [score |-> h.dist])
                           ELSE @]
                /\ UNCHANGED pc
       ELSE IF frame[t].results = << >>
       THEN /\ pc' = [pc EXCEPT ![t] = "rs_except"]
            /\ frame' = [frame EXCEPT ![t].exc = "EmptySearchResults",
                                      ![t].msg = Message("EmptySearchResults")]
       ELSE LET label == classify_text(frame[t].query)
                decision == route(rules, label, frame[t].query)
            IN  IF decision = EmptyDict
                THEN /\ pc' = [pc EXCEPT ![t] = "rs_except"]
                     /\ frame' = [frame EXCEPT ![t].exc = "NoRouteMatched",
                                           ![t].msg = Message("NoRouteMatched")]
                ELSE /\ pc' = [pc EXCEPT ![t] = "rs_log_decision"]
                     /\ frame' = [frame EXCEPT ![t] = frame[t] @@
                            [classification |-> label, decision |-> decision]]
    /\ UNCHANGED <<storeVars, lock, auditLog, rules, clock, calls, faults>>

\* lines 262-270
RouteLogDecision(t) ==
    /\ pc[t] = "rs_log_decision"
    /\ auditLog' = LogAppend(auditLog, AuditRecord(ROUTE_DECISION,
           [role |-> frame[t].role, query |-> frame[t].query,
            classification |-> frame[t].classification,
            decision |-> frame[t].decision], frame[t].req))
    /\ clock' = clock + 1
    /\ pc' = [pc EXCEPT ![t] = "rs_execute"]
    /\ UNCHANGED <<storeVars, lock, rules, frame, calls, faults>>

\* lines 273-280: executor.execute, which audits through its own AuditLogger
\* (same file)
RouteExecute(t) ==
    /\ pc[t] = "rs_execute"
    /\ LET result == ExecutionResult(frame[t].decision)
           context == [query |-> frame[t].query,
                       classification |-> frame[t].classification,
                       top_k |-> frame[t].top_k]
       IN  /\ auditLog' = LogAppend(auditLog, AuditRecord("workflow_execution",
                  [decision |-> frame[t].decision, context |-> context,
                   result |-> result], frame[t].req))
           /\ frame' = [frame EXCEPT ![t] =
                  [frame[t] EXCEPT !.executed = TRUE] @@ [execution |-> result]]
    /\ clock' = clock + 1
    /\ pc' = [pc EXCEPT ![t] = "rs_log_executed"]
    /\ UNCHANGED <<storeVars, lock, rules, calls, faults>>

\* lines 283-301
RouteLogExecuted(t) ==
    /\ pc[t] = "rs_log_executed"
    /\ auditLog' = LogAppend(auditLog, AuditRecord(ROUTE_EXECUTED,
           [role |-> frame[t].role, query |-> frame[t].query,
            classification |-> frame[t].classification,
            decision |-> frame[t].decision,
            execution |-> frame[t].execution], frame[t].req))
    /\ clock' = clock + 1
    /\ pc' = [pc EXCEPT ![t] = "returned"]
    /\ UNCHANGED <<storeVars, lock, rules, frame, calls, faults>>

\* the except clause, if any, that handles exception e raised in the try
\* block: "denied" (line 303), "failed" (line 314) or "none"
HandlerForDeniedOnly(e) ==
    IF IsInstance(e, "app.errors.PermissionDenied") THEN "denied" ELSE "none"
HandlerFor(e) ==
    IF IsInstance(e, "app.errors.PermissionDenied") THEN "denied"
    ELSE IF IsInstance(e, "DocuFlowError") THEN "failed"
    ELSE "none"

\* lines 303-323: the handler audits and re-raises; an exception no clause
\* names leaves the function as it is
RouteExcept(t) ==
    /\ pc[t] = "rs_except"
    /\ LET h == HandlerFor(frame[t].exc)
       IN  IF h = "denied"
           THEN /\ auditLog' = LogAppend(auditLog, AuditRecord(ROUTE_DENIED,
                       [role |-> frame[t].role, query |-> frame[t].query,
                        reason |-> frame[t].msg], frame[t].req))
                /\ clock' = clock + 1
           ELSE IF h = "failed"
           THEN /\ auditLog' = LogAppend(auditLog, AuditRecord(ROUTE_FAILED,
                       [role |-> frame[t].role, query |-> frame[t].query,
                        error |-> frame[t].msg], frame[t].req))
                /\ clock' = clock + 1
           ELSE UNCHANGED <<auditLog, clock>>
    /\ pc' = [pc EXCEPT ![t] = "raised"]
    /\ UNCHANGED <<storeVars, lock, rules, frame, calls, faults>>

----------------------------------------------------------------------------
(* Construction: FAISSStore() on an empty data directory creates both     *)
(* artifacts; the router's rule file is read once.                         *)

InitStore ==
    /\ index = << >>
    /\ metadata = << >>
    /\ diskIndex = WriteIndex(<< >>)
    /\ diskMeta = WriteMetadata(<< >>)
    /\ lock = NoThread
    /\ auditLog = << >>
    /\ clock = 0
    /\ pc = [t \in Threads |-> "idle"]
    /\ frame = [t \in Threads |-> Idle]
    /\ calls = 0
    /\ faults = 0

Init ==
    /\ InitStore
    /\ rules \in RuleSets

\* the store's writers
StoreStep(t) ==
    \/ \E arg \in AddDocumentInputs : AddDocumentCall(t, arg)
    \/ AddDocumentLock(t)
    \/ AddDocumentIndexAdd(t)
    \/ AddDocumentSetDefault(t)
    \/ AddDocumentAppend(t)
    \/ \E arg \in AddEmbeddingsInputs : AddEmbeddingsCall(t, arg)
    \/ AddEmbeddingsLock(t)
    \/ AddEmbeddingsIndexAdd(t)
    \/ AddEmbeddingsLoop(t)
    \/ PersistIndex(t)
    \/ PersistIndexFails(t)
    \/ PersistMetadata(t)
    \/ PersistMetadataFails(t)
    \/ Return(t)

Next == \E t \in Threads : StoreStep(t)

\* the services with the router built from the first rule file
InitUrgent ==
    /\ InitStore
    /\ rules = UrgentRules

\* concurrent add_document and add_embeddings callers of one store
Spec == InitUrgent /\ [][Next]_vars

\* the steps of a route_from_search request after its start
RouteStep(t) ==
    \/ RouteSearch(t)
    \/ RouteCollect(t)
    \/ RouteLogDecision(t)
    \/ RouteExecute(t)
    \/ RouteLogExecuted(t)
    \/ RouteExcept(t)

\* the /faiss/add and /route-from-search endpoints served concurrently
IngestStep(t) ==
    \/ \E arg \in FaissAddInputs : AddDocumentCall(t, arg)
    \/ AddDocumentLock(t)
    \/ AddDocumentIndexAdd(t)
    \/ AddDocumentSetDefault(t)
    \/ AddDocumentAppend(t)
    \/ PersistIndex(t)
    \/ PersistMetadata(t)
    \/ Return(t)

NextRoute ==
    \E t \in Threads :
        \/ IngestStep(t)
        \/ \E req \in RouteRequests : RouteCall(t, req, "operator")
        \/ RouteStep(t)

SpecRoute == Init /\ [][NextRoute]_vars

\* the same with the request's role ranging over all of Role
NextAnyRole ==
    \E t \in Threads :
        \/ IngestStep(t)
        \/ \E role \in Role : RouteCall(t, UrgentRequest, role)
        \/ RouteStep(t)

SpecAnyRole == Init /\ [][NextAnyRole]_vars

----------------------------------------------------------------------------
(* Properties *)

InStoreCall(t) == frame[t].op \in {"add_document", "add_embeddings"}
InRoute(t) == frame[t].op = "route_from_search"

\* the audit lines written by request r, in file order
RequestRecords(r) == SelectSeq(auditLog, LAMBDA x : x.req = r)
Events(recs) == [i \in 1..Len(recs) |-> recs[i].event]

\* thread t leaves the critical section of an add in this step
LeavesCritical(t) ==
    /\ pc[t] \in {"ad_index_add", "ad_setdefault", "ad_append", "ad_persist_index",
                  "ad_persist_meta", "ae_index_add", "ae_loop", "ae_persist_index",
                  "ae_persist_meta"}
    /\ pc'[t] \in {"returned", "raised"}

\* C1: whenever no add is inside its critical section (in particular after
\* any sequence of completed add_document / add_embeddings calls, sequential
\* or concurrent), the index holds as many vectors as the ledger has records.
C1_IndexLedgerSameLength ==
    lock = NoThread => Len(index) = Len(metadata)

\* C1 witness: three calls have run, among them a batch, and all have left
\* the critical section.
C1_Witness ==
    /\ lock = NoThread
    /\ calls = MaxCalls
    /\ \A t \in Threads : pc[t] = "idle"
    /\ Len(metadata) >= 3

\* C2 (as claimed): every ledger position i holds a record with vector_id = i.
C2_VectorIdIsPosition ==
    \A i \in 1..Len(metadata) :
        Has(metadata[i], "vector_id") /\ metadata[i].vector_id = i - 1

\* C3 (as claimed): an add that fails inside its critical section leaves the
\* index, the ledger and both artifacts as they were when it entered; one that
\* succeeds leaves all four holding the new items.
C3_AddAllOrNothing ==
    [][\A t \in Threads :
         LeavesCritical(t) =>
            IF pc'[t] = "raised"
            THEN /\ index' = frame[t].snap.index
                 /\ metadata' = frame[t].snap.metadata
                 /\ diskIndex' = frame[t].snap.diskIndex
                 /\ diskMeta' = frame[t].snap.diskMeta
            ELSE /\ Len(index') > Len(frame[t].snap.index)
                 /\ Len(metadata') > Len(frame[t].snap.metadata)
                 /\ diskIndex' = WriteIndex(index')
                 /\ diskMeta' = WriteMetadata(metadata')]_vars

\* C4: when a raw-text add_document appends its record, the record lands at
\* the position whose number is its vector_id, and the call's vector is at
\* the same position of the index: concurrent callers get consecutive ids,
\* each once.
C4_RawTextAddsSerialized ==
    [][\A t \in Threads :
         (pc[t] = "ad_append" /\ pc'[t] = "ad_persist_index" /\ frame[t].kind = "str")
            => LET n == Len(metadata')
               IN  /\ n = Len(metadata) + 1
                   /\ metadata'[n].vector_id = n - 1
                   /\ metadata'[n].text = frame[t].meta.text
                   /\ Len(index') = n
                   /\ index'[n] = frame[t].emb]_vars

\* C4 witness: two raw-text callers at once on a store that already holds a
\* record; one has appended, the other waits for the lock.
C4_Witness ==
    \E t, u \in Threads :
        /\ t # u
        /\ pc[t] = "ad_persist_index" /\ frame[t].kind = "str"
        /\ pc[u] = "ad_lock" /\ frame[u].kind = "str"
        /\ Len(metadata) >= 2

\* C5: at the step in which an add returns successfully, a store constructed
\* from the two artifacts holds the index and the ledger the in-memory store
\* holds.
C5_PersistedBeforeReturn ==
    [][\A t \in Threads :
         (LeavesCritical(t) /\ pc'[t] = "returned")
            => LET s == Startup(diskIndex', diskMeta')
               IN  s.ok /\ s.index = index' /\ s.metadata = metadata']_vars

\* C5 witness: an add has returned and the artifacts hold its items.
C5_Witness ==
    \E t \in Threads :
        /\ pc[t] = "returned" /\ InStoreCall(t)
        /\ Len(metadata) >= 2
        /\ Startup(diskIndex, diskMeta).metadata = metadata
        /\ Startup(diskIndex, diskMeta).index = index

\* C6 (as claimed): at every point a store started from the artifacts loads
\* an index and a ledger of equal length.
C6_ArtifactsNeverDrift ==
    LET s == Startup(diskIndex, diskMeta)
    IN  s.ok /\ Len(s.index) = Len(s.metadata)

C8_TwoAuditRecords ==
    \A t \in Threads :
        (pc[t] = "returned" /\ InRoute(t)) => Len(RequestRecords(frame[t].req)) = 2

\* C8 (amended): a route_from_search that returns has appended exactly three
\* audit records: its decision record, the executor's workflow_execution
\* record and its execution record, in this order.
C8_ThreeAuditRecords ==
    \A t \in Threads :
        (pc[t] = "returned" /\ InRoute(t))
            => Events(RequestRecords(frame[t].req))
                  = <<ROUTE_DECISION, "workflow_execution", ROUTE_EXECUTED>>

\* C8 witness: a request has been permitted, found results, been routed and
\* executed, and has returned.
C8_Witness ==
    \E t \in Threads :
        /\ pc[t] = "returned" /\ InRoute(t)
        /\ frame[t].executed
        /\ frame[t].results # << >>

\* C9: a request that ends with EmptySearchResults or NoRouteMatched has
\* written exactly one audit record, of kind "failed", carrying the role, the
\* query and the error's message; it wrote no decision record and the
\* executor did not run.
C9_FailureAudited ==
    \A t \in Threads :
        (pc[t] = "raised" /\ InRoute(t)
         /\ frame[t].exc \in {"EmptySearchResults", "NoRouteMatched"})
            => LET recs == RequestRecords(frame[t].req)
               IN  /\ Len(recs) = 1
                   /\ recs[1].event = ROUTE_FAILED
                   /\ recs[1].payload = [role |-> frame[t].role,
                                         query |-> frame[t].query,
                                         error |-> Message(frame[t].exc)]
                   /\ ~frame[t].executed

\* C9 witness: both failures have happened, each audited.
C9_Witness ==
    \E t, u \in Threads :
        /\ pc[t] = "raised" /\ InRoute(t) /\ frame[t].exc = "NoRouteMatched"
        /\ pc[u] = "raised" /\ InRoute(u) /\ frame[u].exc = "EmptySearchResults"
        /\ Len(auditLog) >= 2

\* C10 (as claimed): every request that ends with an error, of whatever
\* kind, has written exactly one audit record for it.
C10_EveryFailureAudited ==
    \A t \in Threads :
        (pc[t] = "raised" /\ InRoute(t))
            => Len(SelectSeq(RequestRecords(frame[t].req),
                             LAMBDA x : x.event \in {ROUTE_DENIED, ROUTE_FAILED})) = 1

----------------------------------------------------------------------------
(* WorkflowExecutor.execute called directly (workflow/executor.py) *)

\* decisions handed to execute: the four supported actions, an unknown one,
\* and a decision that carries no action
ExecDecisions ==
    {[action |-> "queue", target |-> "finance"],
     [action |-> "tag"],
     [action |-> "log"],
     [action |-> "webhook"],
     [action |-> "bogus"],
     [target |-> "ops"]}

ExecContexts == {EmptyDict, [query |-> TextB]}

\* lines 41-48: the record execute hands to its logger
ExecutionRecordNoResult(decision, context, result, req) ==
    AuditRecord("workflow_execution",
                [decision |-> decision, context |-> context], req)
ExecutionRecord(decision, context, result, req) ==
    AuditRecord("workflow_execution",
                [decision |-> decision, context |-> context, result |-> result],
                req)

\* lines 9-50: execute(decision=..., context=...)
ExecuteCall(t, decision, context) ==
    /\ pc[t] = "idle"
    /\ calls < MaxCalls
    /\ LET result == ExecutionResult(decision)
       IN  /\ auditLog' = LogAppend(auditLog,
                  ExecutionRecord(decision, context, result, calls + 1))
           /\ frame' = [frame EXCEPT ![t] =
                  [op |-> "execute", req |-> calls + 1, decision |-> decision,
                   context |-> context, result |-> result]]
    /\ clock' = clock + 1
    /\ calls' = calls + 1
    /\ pc' = [pc EXCEPT ![t] = "returned"]
    /\ UNCHANGED <<storeVars, lock, rules, faults>>

NextExec ==
    \E t \in Threads :
        \/ \E decision \in ExecDecisions, context \in ExecContexts :
               ExecuteCall(t, decision, context)
        \/ Return(t)

\* concurrent callers of one executor
SpecExec == InitUrgent /\ [][NextExec]_vars

InExecute(t) == frame[t].op = "execute"

\* C11: every call of execute that returned, whatever the action and whether
\* the status is completed or ignored, has appended exactly one audit record,
\* of kind workflow_execution, whose payload holds the decision, the context
\* and the returned result.
C11_ExecuteAuditedOnce ==
    \A t \in Threads :
        (pc[t] = "returned" /\ InExecute(t))
            => LET recs == RequestRecords(frame[t].req)
               IN  /\ Len(recs) = 1
                   /\ recs[1].event = "workflow_execution"
                   /\ DOMAIN recs[1].payload = {"decision", "context", "result"}
                   /\ recs[1].payload.decision = frame[t].decision
                   /\ recs[1].payload.context = frame[t].context
                   /\ recs[1].payload.result = frame[t].result

\* C11 witness: an ignored and a completed execution have both returned and
\* the log holds their two records.
C11_Witness ==
    \E t, u \in Threads :
        /\ pc[t] = "returned" /\ InExecute(t)
        /\ frame[t].result.status = "ignored"
        /\ pc[u] = "returned" /\ InExecute(u)
        /\ frame[u].result.status = "completed"
        /\ Len(auditLog) = 2

SupportedActions == {"queue", "tag", "log", "webhook"}

\* C12 (as claimed): the result is completed iff the decision's action is one
\* of queue, tag, log, webhook, is otherwise ignored with the message
\* "Unknown action: <action>", and its action is the decision's action.
C12_StatusFollowsAction ==
    \A t \in Threads :
        (pc[t] = "returned" /\ InExecute(t))
            => LET d == frame[t].decision
                   r == frame[t].result
                   supported == Has(d, "action") /\ d.action \in SupportedActions
               IN  /\ r.status = "completed" <=> supported
                   /\ ~supported => r.status = "ignored"
                   /\ Has(d, "action") /\ r.action = d.action

\* C12 (amended): the action is the decision's action, or "log" when the
\* decision carries none; the result is completed iff that action is one of
\* queue, tag, log, webhook, is otherwise ignored with the message
\* "Unknown action: <action>", and its action field is that action.
C12_StatusFollowsDefaultedAction ==
    \A t \in Threads :
        (pc[t] = "returned" /\ InExecute(t))
            => LET d == frame[t].decision
                   r == frame[t].result
                   action == IF Has(d, "action") THEN d.action ELSE "log"
               IN  /\ r.action = action
                   /\ r.status \in {"completed", "ignored"}
                   /\ r.status = "completed" <=> action \in SupportedActions
                   /\ r.status = "ignored"
                          => r.message = <<"Unknown action: ", action>>

\* C12 witness: execute has returned from a decision without an action and
\* from one with an unknown action.
C12_Witness ==
    \E t, u \in Threads :
        /\ pc[t] = "returned" /\ InExecute(t)
        /\ ~Has(frame[t].decision, "action")
        /\ pc[u] = "returned" /\ InExecute(u)
        /\ Has(frame[u].decision, "action")
        /\ frame[u].decision.action = "bogus"

----------------------------------------------------------------------------
(* WorkflowRouter.route called directly (workflow/router.py) *)

MaxRules == 3

\* rules a rule file may list: one condition, the other, both, none
RulePool ==
    {[when |-> [classification |-> "urgent"],
      route |-> [action |-> "queue", target |-> "r1"]],
     [when |-> [keyword_contains |-> <<"Payment", "invoice">>],
      route |-> [action |-> "tag", target |-> "r2"]],
     [when |-> [classification |-> "payment_request",
                keyword_contains |-> <<"overdue">>],
      route |-> [action |-> "webhook", target |-> "r3"]],
     [route |-> [action |-> "log", target |-> "r4"]]}

\* rule lists without repetition, up to MaxRules long
RuleLists ==
    {rl \in UNION {[1..n -> RulePool] : n \in 0..MaxRules} :
        \A i, j \in 1..Len(rl) : i # j => rl[i] # rl[j]}

\* what yaml.safe_load(f) or {} may give the router
RuleFiles ==
    {EmptyDict, [default_route |-> [action |-> "log", target |-> "default"]]}
    \cup {[routes |-> rl] : rl \in RuleLists}
    \cup {[routes |-> rl,
           default_route |-> [action |-> "log", target |-> "default"]] :
              rl \in RuleLists}

RouteClassifications == {"urgent", "payment_request", "general"}
RouteTexts == {TextA, TextB, <<"Payment">>, Empty}

\* lines 26-57: route(classification=..., text=...)
RouterCall(t, classification, text) ==
    /\ pc[t] = "idle"
    /\ calls < MaxCalls
    /\ frame' = [frame EXCEPT ![t] =
           [op |-> "route", classification |-> classification, text |-> text,
            decision |-> route(rules, classification, text)]]
    /\ calls' = calls + 1
    /\ pc' = [pc EXCEPT ![t] = "returned"]
    /\ UNCHANGED <<storeVars, lock, auditLog, rules, clock, faults>>

InitRouter ==
    /\ InitStore
    /\ rules \in RuleFiles

NextRouter ==
    \E t \in Threads :
        \/ \E classification \in RouteClassifications, text \in RouteTexts :
               RouterCall(t, classification, text)
        \/ Return(t)

\* callers of a router built from any of the rule files
SpecRouter == InitRouter /\ [][NextRouter]_vars

InRouter(t) == frame[t].op = "route"

\* the rule list and the positions of the rules that accept the call of t
RoutesOf(rs) == IF Has(rs, "routes") THEN rs.routes ELSE << >>
MatchingRules(t) ==
    {i \in 1..Len(RoutesOf(rules)) :
        RuleMatches(RoutesOf(rules)[i], frame[t].classification, frame[t].text)}

\* C13: route returns the route payload of the first rule, in rule-list
\* order, all of whose present conditions match; no later matching rule is
\* chosen over an earlier one; when no rule matches, the configured default
\* route is returned (the empty decision when none is configured).
C13_FirstMatchWins ==
    \A t \in Threads :
        (pc[t] = "returned" /\ InRouter(t))
            => LET m == MatchingRules(t)
               IN  IF m = {}
                   THEN frame[t].decision =
                            IF Has(rules, "default_route")
                            THEN rules.default_route ELSE EmptyDict
                   ELSE LET first == CHOOSE i \in m : \A j \in m : i <= j
                        IN  /\ frame[t].decision = RoutesOf(rules)[first].route
                            /\ \A j \in m :
                                   j > first
                                      => frame[t].decision # RoutesOf(rules)[j].route

\* C13 witness: a call that two rules accept has returned, and so has a call
\* that no rule accepts.
C13_Witness ==
    \E t, u \in Threads :
        /\ pc[t] = "returned" /\ InRouter(t)
        /\ Cardinality(MatchingRules(t)) >= 2
        /\ pc[u] = "returned" /\ InRouter(u)
        /\ MatchingRules(u) = {}
        /\ RoutesOf(rules) # << >>

----------------------------------------------------------------------------
(* enforce_permission called directly (security/guard.py) *)

Capability ==
    {"view_search_results", "execute_workflow", "override_route",
     "view_audit_logs", "manage_rules"}

\* the roles of the mapping and a value that is not a key of it
GuardRoles == Role \cup {"guest"}

\* lines 13-27: enforce_permission(role=..., capability=...)
GuardCall(t, role, capability) ==
    /\ pc[t] = "idle"
    /\ calls < MaxCalls
    /\ calls' = calls + 1
    /\ LET e == enforce_permission(role, capability)
       IN  /\ pc' = [pc EXCEPT ![t] = IF e = "none" THEN "returned" ELSE "raised"]
           /\ frame' = [frame EXCEPT ![t] =
                  [op |-> "enforce_permission", role |-> role,
                   capability |-> capability, exc |-> e,
                   msg |-> IF e = "none" THEN << >>
                           ELSE DeniedMessage(role, capability)]]
    /\ UNCHANGED <<storeVars, lock, auditLog, rules, clock, faults>>

NextGuard ==
    \E t \in Threads :
        \/ \E role \in GuardRoles, capability \in Capability :
               GuardCall(t, role, capability)
        \/ Return(t)

\* callers of the guard
SpecGuard == InitUrgent /\ [][NextGuard]_vars

InGuard(t) == frame[t].op = "enforce_permission"

\* C14: a call of enforce_permission raises PermissionDenied iff the
\* capability is not in the role's set in ROLE_CAPABILITIES, a role that is
\* not in the mapping having no capability at all; otherwise it returns; in
\* both cases the call leaves the store, the artifacts, the lock, the audit
\* log and the rules as they were.
C14_GuardDecides ==
    [][\A t \in Threads :
          (pc[t] = "idle" /\ pc'[t] # "idle" /\ InGuard(t)')
             => LET role == frame'[t].role
                    capability == frame'[t].capability
                    allowed == /\ role \in DOMAIN ROLE_CAPABILITIES
                               /\ capability \in ROLE_CAPABILITIES[role]
                IN  /\ pc'[t] \in {"returned", "raised"}
                    /\ pc'[t] = "raised" <=> ~allowed
                    /\ pc'[t] = "raised"
                          => frame'[t].exc = "security.guard.PermissionDenied"
                    /\ role \notin Role => pc'[t] = "raised"
                    /\ UNCHANGED <<storeVars, lock, auditLog, rules, clock>>]_vars

\* C14 witness: a role outside the mapping has been denied a capability every
\* mapped role has, and a mapped role has been allowed one.
C14_Witness ==
    \E t, u \in Threads :
        /\ pc[t] = "raised" /\ InGuard(t)
        /\ frame[t].role \notin Role
        /\ frame[t].capability = "view_search_results"
        /\ pc[u] = "returned" /\ InGuard(u)
        /\ frame[u].role = "viewer"

----------------------------------------------------------------------------
(* FAISSStore.search called directly (vector_db/faiss_store.py) *)

SearchQueries == {get_embedding(TextA)}
SearchKs == {-1, 0, 1, 2}

\* lines 157-162: search(query_embedding, k) up to the test of index.ntotal;
\* on an empty index it returns [] there
SearchCall(t, q, k) ==
    /\ pc[t] = "idle"
    /\ calls < MaxCalls
    /\ calls' = calls + 1
    /\ IF Len(index) = 0
       THEN /\ pc' = [pc EXCEPT ![t] = "returned"]
            /\ frame' = [frame EXCEPT ![t] =
                   [op |-> "search", q |-> q, k |-> k, exc |-> "none",
                    results |-> << >>]]
       ELSE /\ pc' = [pc EXCEPT ![t] = "se_search"]
            /\ frame' = [frame EXCEPT ![t] =
                   [op |-> "search", q |-> q, k |-> k, exc |-> "none"]]
    /\ UNCHANGED <<storeVars, lock, auditLog, rules, clock, faults>>

\* lines 164-167: index.search, which asserts the query's dimension and k > 0
SearchIndex(t) ==
    /\ pc[t] = "se_search"
    /\ IF frame[t].q.d # EMBEDDING_DIM \/ frame[t].k <= 0
       THEN RaiseFrom(t, "AssertionError")
       ELSE /\ pc' = [pc EXCEPT ![t] = "se_collect"]
            /\ frame' = [frame EXCEPT ![t] = frame[t] @@
                   [hits |-> IndexSearch(index, frame[t].q, frame[t].k),
                    j |-> 0, results |-> << >>]]
    /\ UNCHANGED <<storeVars, lock, auditLog, rules, clock, calls, faults>>

\* lines 169-176: one iteration of the loop over the hits, then the return
SearchCollectNoSkip(t) ==
    /\ pc[t] = "se_collect"
    /\ LET j == frame[t].j IN
       IF j < Len(frame[t].hits)
       THEN LET h == frame[t].hits[j + 1]
            IN  /\ frame' = [frame EXCEPT ![t].j = j + 1,
                       ![t].results =
                           IF 0 <= h.id /\ h.id < Len(metadata)
                           THEN Append(@, [score |-> h.dist] @@ metadata[h.id + 1])
                           ELSE Append(@, [score |-> h.dist, vector_id |-> h.id])]
                /\ UNCHANGED pc
       ELSE /\ pc' = [pc EXCEPT ![t] = "returned"]
            /\ UNCHANGED frame
    /\ UNCHANGED <<storeVars, lock, auditLog, rules, clock, calls, faults>>
SearchCollect(t) ==
    /\ pc[t] = "se_collect"
    /\ LET j == frame[t].j IN
       IF j < Len(frame[t].hits)
       THEN LET h == frame[t].hits[j + 1]
            IN  /\ frame' = [frame EXCEPT ![t].j = j + 1,
                       ![t].results =
                           IF 0 <= h.id /\ h.id < Len(metadata)
                           THEN Append(@, [score |-> h.dist] @@ metadata[h.id + 1])
                           ELSE @]
                /\ UNCHANGED pc
       ELSE /\ pc' = [pc EXCEPT ![t] = "returned"]
            /\ UNCHANGED frame
    /\ UNCHANGED <<storeVars, lock, auditLog, rules, clock, calls, faults>>

SearchStep(t) ==
    \/ \E q \in SearchQueries, k \in SearchKs : SearchCall(t, q, k)
    \/ SearchIndex(t)
    \/ SearchCollect(t)

NextSearch ==
    \E t \in Threads :
        \/ IngestStep(t)
        \/ SearchStep(t)

\* /faiss/add and direct searches of the one store, served concurrently
SpecSearch == InitUrgent /\ [][NextSearch]_vars

InSearch(t) == frame[t].op = "search"

\* C15 (as claimed): a search with k <= 0 never returns a result list,
\* whatever the store holds: once over, it has failed.
C15_NonPositiveKFails ==
    \A t \in Threads :
        (InSearch(t) /\ frame[t].k <= 0 /\ pc[t] \in {"returned", "raised"})
            => /\ pc[t] = "raised"
               /\ ~Has(frame[t], "results")

----------------------------------------------------------------------------
(* add_document without extractable text *)

\* the add_document call of t was given a str or a dict that yields no text:
\* a record without a text field, or empty text
NoExtractableText(t) ==
    /\ frame[t].op = "add_document"
    /\ frame[t].kind \in {"str", "dict"}
    /\ ~Has(frame[t], "meta") \/ frame[t].meta.text = Empty

----------------------------------------------------------------------------
(* FAISSStore.__init__ on the artifacts it finds (vector_db/faiss_store.py) *)

NoFile == [exists |-> FALSE, valid |-> FALSE, data |-> << >>]

DocA == [text |-> TextA, created_at |-> 0, vector_id |-> 0]

\* what a starting process may find at INDEX_PATH and at META_PATH: nothing,
\* a file written whole, or a file a failed write left partial
IndexFilesAtBoot ==
    {NoFile, WriteIndex(<< >>), WriteIndex(<<embed_text(TextA)>>), PartialFile}
MetaFilesAtBoot ==
    {NoFile, WriteMetadata(<< >>), WriteMetadata(<<DocA>>), PartialFile}

Booting == \A t \in Threads : pc[t] = "boot"

\* lines 36-56, run once when app/main.py is imported (main.py line 47): the
\* index is loaded, or created and written; then the ledger is loaded, or
\* created and written.  A file that cannot be read ends the import.
FAISSStoreInit ==
    /\ Booting
    /\ IF diskIndex.exists /\ ~diskIndex.valid
       THEN \* faiss.read_index raises
            /\ pc' = [t \in Threads |-> "crashed"]
            /\ UNCHANGED <<index, metadata, diskIndex, diskMeta>>
       ELSE /\ index' = IF diskIndex.exists THEN diskIndex.data ELSE << >>
            /\ diskIndex' = IF diskIndex.exists THEN diskIndex ELSE WriteIndex(<< >>)
            /\ IF diskMeta.exists /\ ~diskMeta.valid
               THEN \* json.load raises
                    /\ pc' = [t \in Threads |-> "crashed"]
                    /\ UNCHANGED <<metadata, diskMeta>>
               ELSE /\ metadata' = IF diskMeta.exists THEN diskMeta.data ELSE << >>
                    /\ diskMeta' = IF diskMeta.exists THEN diskMeta
                                   ELSE WriteMetadata(<< >>)
                    /\ pc' = [t \in Threads |-> "idle"]
    /\ UNCHANGED <<lock, auditLog, rules, clock, frame, calls, faults>>

\* a process about to construct its store
InitBoot ==
    /\ index = << >>
    /\ metadata = << >>
    /\ diskIndex \in IndexFilesAtBoot
    /\ diskMeta \in MetaFilesAtBoot
    /\ lock = NoThread
    /\ auditLog = << >>
    /\ rules = UrgentRules
    /\ clock = 0
    /\ pc = [t \in Threads |-> "boot"]
    /\ frame = [t \in Threads |-> Idle]
    /\ calls = 0
    /\ faults = 0

NextBoot ==
    \/ FAISSStoreInit
    \/ \E t \in Threads : IngestStep(t)

\* startup on whatever artifacts are there, then /faiss/add requests
SpecBoot == InitBoot /\ [][NextBoot]_vars

\* C17 (as claimed): construction on exactly one of the two artifacts fails
\* and creates no file.
C17_OneArtifactIsFatal ==
    [][(Booting /\ diskIndex.exists # diskMeta.exists)
          => /\ \A t \in Threads : pc'[t] = "crashed"
             /\ diskIndex' = diskIndex
             /\ diskMeta' = diskMeta]_vars

----------------------------------------------------------------------------
(* The audit log as a file that only grows *)

\* thread t is at one of the log calls of a request: main.py lines 262 and
\* 283, executor.py line 41
AtLogCall(t) == pc[t] \in {"rs_log_decision", "rs_execute", "rs_log_executed"}

----------------------------------------------------------------------------
(* AuditLogger.log, one file object per call (audit/logger.py) *)

\* the two logger instances of the process, both on the same file: the
\* orchestrator's (main.py line 50) and the executor's (executor.py line 7),
\* each with an event it logs
Loggers ==
    {[logger |-> "audit_logger", event |-> ROUTE_DECISION],
     [logger |-> "executor.logger", event |-> "workflow_execution"]}

\* a line whose bytes were written over by another writer's line
Overwritten(new, old) ==
    [event |-> "<overwritten>", timestamp |-> new.timestamp,
     payload |-> <<new.payload, old.payload>>, req |-> new.req]

\* the file after a write of rec at line offset pos
WriteAt(log, pos, rec) ==
    IF pos >= Len(log) THEN Append(log, rec)
    ELSE [log EXCEPT ![pos + 1] = Overwritten(rec, log[pos + 1])]

\* lines 28-36 up to the end of f.write: the record is built, the file is
\* opened for append through a file object of this call, and the line sits in
\* that object's buffer.  No lock is taken.
LogCall(t, lg) ==
    /\ pc[t] = "idle"
    /\ calls < MaxCalls
    /\ calls' = calls + 1
    /\ clock' = clock + 1
    /\ frame' = [frame EXCEPT ![t] =
           [op |-> "log", logger |-> lg.logger, req |-> calls + 1,
            rec |-> AuditRecord(lg.event, [query |-> TextB], calls + 1)]]
    /\ pc' = [pc EXCEPT ![t] = "lg_close"]
    /\ UNCHANGED <<storeVars, lock, auditLog, rules, faults>>

\* line 35, leaving the with block: the buffer is flushed to the file.  Where
\* the platform appends atomically the line lands after everything written
\* so far, in one step.
LogFlush(t) ==
    /\ pc[t] = "lg_close"
    /\ auditLog' = LogAppend(auditLog, frame[t].rec)
    /\ pc' = [pc EXCEPT ![t] = "returned"]
    /\ UNCHANGED <<storeVars, lock, rules, clock, frame, calls, faults>>

\* Where it does not (the append is "seek to the end, then write"), the end
\* is located first ...
LogSeekEnd(t) ==
    /\ pc[t] = "lg_close"
    /\ frame' = [frame EXCEPT ![t] = frame[t] @@ [pos |-> Len(auditLog)]]
    /\ pc' = [pc EXCEPT ![t] = "lg_write_at"]
    /\ UNCHANGED <<storeVars, lock, auditLog, rules, clock, calls, faults>>

\* ... and the line is written there, over whatever another writer has put
\* at that place since.
LogWriteAt(t) ==
    /\ pc[t] = "lg_write_at"
    /\ auditLog' = WriteAt(auditLog, frame[t].pos, frame[t].rec)
    /\ pc' = [pc EXCEPT ![t] = "returned"]
    /\ UNCHANGED <<storeVars, lock, rules, clock, frame, calls, faults>>

NextAudit ==
    \E t \in Threads :
        \/ \E lg \in Loggers : LogCall(t, lg)
        \/ LogFlush(t)
        \/ LogSeekEnd(t)
        \/ LogWriteAt(t)
        \/ Return(t)

\* request threads logging through the two loggers
SpecAudit == InitUrgent /\ [][NextAudit]_vars

\* thread t holds the audit file open: it is inside the with block of log
Appending(t) == pc[t] \in {"lg_close", "lg_write_at"}

\* C19 (as claimed): appends to the audit file exclude each other, whichever
\* logger they go through: at most one thread is inside an append at a time,
\* every line of the file is one complete record, and the record of every
\* log call that returned is in the file.
C19_AuditAppendsExclusive ==
    /\ \A t, u \in Threads : (Appending(t) /\ Appending(u)) => t = u
    /\ \A i \in 1..Len(auditLog) : auditLog[i].event # "<overwritten>"
    /\ \A t \in Threads :
           (pc[t] = "returned" /\ frame[t].op = "log")
              => \E i \in 1..Len(auditLog) : auditLog[i] = frame[t].rec

----------------------------------------------------------------------------
(* rerank (hybrid_search.py) *)

MaxHits == 3

\* floats are modelled as exact fractions [num, den] with den > 0
Frac(n, d) == [num |-> n, den |-> d]
FracGeq(a, b) == a.num * b.den >= b.num * a.den
FracEq(a, b) == a.num * b.den = b.num * a.den

\* pieces of a text that hold no word character: \w+ finds nothing in them
Punctuation == {"!?"}

\* set(re.findall(r"\w+", s.lower()))
Tokens(text) ==
    {Lower(text[i]) : i \in {j \in 1..Len(text) : text[j] \notin Punctuation}}

\* lines 14-25
keyword_scoreByLength(query, text) ==
    IF Tokens(query) = {} THEN Frac(0, 1)
    ELSE Frac(Cardinality(Tokens(query) \cap Tokens(text)), Len(query))
keyword_score(query, text) ==
    IF Tokens(query) = {} THEN Frac(0, 1)
    ELSE Frac(Cardinality(Tokens(query) \cap Tokens(text)),
              Cardinality(Tokens(query)))

\* lines 45-58: 0.3 * k_score + 0.7 * (1 / (1 + score)) and the enriched copy
Enriched(query, item) ==
    LET text == IF Has(item, "text") THEN item.text ELSE Empty
        score == IF Has(item, "score") THEN item.score ELSE 0
        k_score == keyword_score(query, text)
        combined == Frac(3 * k_score.num * (1 + score) + 7 * k_score.den,
                         10 * k_score.den * (1 + score))
    IN  [keyword_score |-> k_score, combined_score |-> combined] @@ item

\* list.sort(key=combined_score, reverse=True), one insertion: x goes behind
\* every element whose key is not smaller, so equal keys keep their order
InsertDescBeforeEquals(sorted, x) ==
    LET ahead == {i \in 1..Len(sorted) :
                     ~FracGeq(x.combined_score, sorted[i].combined_score)}
        p == Cardinality(ahead)
    IN  SubSeq(sorted, 1, p) \o <<x>> \o SubSeq(sorted, p + 1, Len(sorted))
InsertDesc(sorted, x) ==
    LET ahead == {i \in 1..Len(sorted) :
                     FracGeq(sorted[i].combined_score, x.combined_score)}
        p == Cardinality(ahead)
    IN  SubSeq(sorted, 1, p) \o <<x>> \o SubSeq(sorted, p + 1, Len(sorted))

RECURSIVE SortDesc(_)
SortDesc(s) ==
    IF s = << >> THEN << >>
    ELSE InsertDesc(SortDesc(SubSeq(s, 1, Len(s) - 1)), s[Len(s)])

\* lines 32-62
rerank(query, semantic_results) ==
    SortDesc([i \in 1..Len(semantic_results) |->
                 Enriched(query, semantic_results[i])])

\* hits as FAISSStore.search returns them; two differ only in vector_id, one
\* has neither text nor score
HitPool ==
    {[text |-> TextA, score |-> 0, vector_id |-> 0],
     [text |-> TextA, score |-> 0, vector_id |-> 1],
     [text |-> TextB, score |-> 1, vector_id |-> 2],
     [vector_id |-> 3]}

HitLists ==
    {hl \in UNION {[1..n -> HitPool] : n \in 0..MaxHits} :
        \A i, j \in 1..Len(hl) : i # j => hl[i] # hl[j]}

RerankQueries == {TextA, <<"Payment">>, Empty}

RerankCall(t, query, hits) ==
    /\ pc[t] = "idle"
    /\ calls < MaxCalls
    /\ calls' = calls + 1
    /\ frame' = [frame EXCEPT ![t] =
           [op |-> "rerank", query |-> query, hits |-> hits,
            out |-> rerank(query, hits)]]
    /\ pc' = [pc EXCEPT ![t] = "returned"]
    /\ UNCHANGED <<storeVars, lock, auditLog, rules, clock, faults>>

NextRank ==
    \E t \in Threads :
        \/ \E query \in RerankQueries, hits \in HitLists :
               RerankCall(t, query, hits)
        \/ Return(t)

\* callers of rerank
SpecRank == InitUrgent /\ [][NextRank]_vars

InRerank(t) == frame[t].op = "rerank"

\* out[j] is the input hit h with the two score fields added
EnrichmentOf(o, h) ==
    /\ DOMAIN o = DOMAIN h \cup {"keyword_score", "combined_score"}
    /\ \A f \in DOMAIN h : o[f] = h[f]

\* C20: rerank returns a permutation of the enriched input hits, sorted in
\* descending order of combined_score, in which any two hits of equal
\* combined_score stand in the relative order they had in the input.
C20_RerankStableDescending ==
    \A t \in Threads :
        (pc[t] = "returned" /\ InRerank(t))
            => LET in == frame[t].hits
                   out == frame[t].out
                   n == Len(in)
               IN  /\ Len(out) = n
                   /\ \E p \in [1..n -> 1..n] :
                          /\ \A i, j \in 1..n : i # j => p[i] # p[j]
                          /\ \A i \in 1..n : EnrichmentOf(out[p[i]], in[i])
                          /\ \A i, j \in 1..n :
                                 (i < j /\ FracEq(out[p[i]].combined_score,
                                                  out[p[j]].combined_score))
                                    => p[i] < p[j]
                   /\ \A j, k \in 1..n :
                          j < k => FracGeq(out[j].combined_score,
                                           out[k].combined_score)

\* C20 witness: rerank has returned a list in which it moved a hit forward
\* and kept two hits of equal combined_score in their input order.
C20_Witness ==
    \E t \in Threads :
        /\ pc[t] = "returned" /\ InRerank(t)
        /\ Len(frame[t].hits) = 3
        /\ frame[t].out[1].vector_id = frame[t].hits[2].vector_id
        /\ FracEq(frame[t].out[1].combined_score, frame[t].out[2].combined_score)
        /\ ~FracEq(frame[t].out[2].combined_score, frame[t].out[3].combined_score)

----------------------------------------------------------------------------
(* hybrid_search after the store's search: rerank, group, cap, order
   (hybrid_search.py lines 108-166) *)

MaxCap == 2

\* item.get("source_file", "unknown")
SourceOf(item) == IF Has(item, "source_file") THEN item.source_file ELSE "unknown"

\* s[:n]
SliceAll(s, n) == s
Slice(s, n) ==
    IF n >= 0 THEN SubSeq(s, 1, IF n < Len(s) THEN n ELSE Len(s))
    ELSE SubSeq(s, 1, IF Len(s) + n > 0 THEN Len(s) + n ELSE 0)

FracMax(a, b) == IF FracGeq(a, b) THEN a ELSE b

\* lines 119-134: the groups in the order their sources first appear
RECURSIVE Grouped(_)
Grouped(reranked) ==
    IF reranked = << >> THEN << >>
    ELSE LET before == Grouped(SubSeq(reranked, 1, Len(reranked) - 1))
             item == reranked[Len(reranked)]
             source == SourceOf(item)
             at == {i \in 1..Len(before) : before[i].source_file = source}
         IN  IF at = {}
             THEN Append(before, [source_file |-> source,
                                  best_score |-> item.combined_score,
                                  chunks |-> <<item>>])
             ELSE LET i == CHOOSE i \in at : TRUE
                  IN  [before EXCEPT
                          ![i].chunks = Append(@, item),
                          ![i].best_score = FracMax(@, item.combined_score)]

\* lines 139-144
Capped(groups, n) ==
    [i \in 1..Len(groups) |->
        [groups[i] EXCEPT !.chunks = Slice(SortDesc(@), n)]]

\* lines 149-153: sorted(grouped.values(), key=best_score, reverse=True)
InsertDocDesc(sorted, doc) ==
    LET ahead == {i \in 1..Len(sorted) :
                     FracGeq(sorted[i].best_score, doc.best_score)}
        p == Cardinality(ahead)
    IN  SubSeq(sorted, 1, p) \o <<doc>> \o SubSeq(sorted, p + 1, Len(sorted))

RECURSIVE OrderedDocs(_)
OrderedDocs(groups) ==
    IF groups = << >> THEN << >>
    ELSE InsertDocDesc(OrderedDocs(SubSeq(groups, 1, Len(groups) - 1)),
                       groups[Len(groups)])

\* lines 158-166; c["text"] needs every kept chunk to have a text
TextsPresent(docs) ==
    \A i \in 1..Len(docs) : \A j \in 1..Len(docs[i].chunks) :
        Has(docs[i].chunks[j], "text")
Response(docs) ==
    [i \in 1..Len(docs) |->
        [source_file |-> docs[i].source_file,
         score |-> docs[i].best_score,
         chunks |-> [j \in 1..Len(docs[i].chunks) |-> docs[i].chunks[j].text]]]

\* hits as the store's search returns them
GroupHitPool ==
    {[text |-> TextA, score |-> 0, source_file |-> "a.txt", vector_id |-> 0],
     [text |-> TextB, score |-> 1, source_file |-> "a.txt", vector_id |-> 1],
     [text |-> TextA, score |-> 2, source_file |-> "b.txt", vector_id |-> 2],
     [text |-> TextB, score |-> 0, vector_id |-> 3],
     [score |-> 1, source_file |-> "b.txt", vector_id |-> 4]}

GroupHitLists ==
    {hl \in UNION {[1..n -> GroupHitPool] : n \in 0..MaxHits} :
        \A i, j \in 1..Len(hl) : i # j => hl[i] # hl[j]}

\* lines 108-166 of hybrid_search, raw_results being what search returned
HybridGroupCall(t, query, raw_results, n) ==
    /\ pc[t] = "idle"
    /\ calls < MaxCalls
    /\ calls' = calls + 1
    /\ LET docs == IF raw_results = << >> THEN << >>
                   ELSE OrderedDocs(Capped(Grouped(rerank(query, raw_results)), n))
       IN  IF TextsPresent(docs)
           THEN /\ pc' = [pc EXCEPT ![t] = "returned"]
                /\ frame' = [frame EXCEPT ![t] =
                       [op |-> "hybrid_search", query |-> query,
                        raw |-> raw_results, cap |-> n, exc |-> "none",
                        out |-> Response(docs)]]
           ELSE /\ pc' = [pc EXCEPT ![t] = "raised"]
                /\ frame' = [frame EXCEPT ![t] =
                       [op |-> "hybrid_search", query |-> query,
                        raw |-> raw_results, cap |-> n, exc |-> "KeyError"]]
    /\ UNCHANGED <<storeVars, lock, auditLog, rules, clock, faults>>

\* the grouping is a function of its arguments: one caller shows all of it
Caller == CHOOSE t \in Threads : TRUE

NextGroup ==
    \/ \E raw_results \in GroupHitLists, n \in 0..MaxCap :
           HybridGroupCall(Caller, TextA, raw_results, n)
    \/ Return(Caller)

SpecGroup == InitUrgent /\ [][NextGroup]_vars

InHybrid(t) == frame[t].op = "hybrid_search"

\* C21: of a hybrid_search that returned with cap n, every document group
\* has at most n chunks, the groups stand in descending order of score, no
\* source has two groups, and every chunk of a group is the text of an input
\* hit of that group's source_file ("unknown" for a hit without one).
C21_GroupsCappedAndOrdered ==
    \A t \in Threads :
        (pc[t] = "returned" /\ InHybrid(t))
            => LET out == frame[t].out
                   raw == frame[t].raw
               IN  /\ \A i \in 1..Len(out) : Len(out[i].chunks) <= frame[t].cap
                   /\ \A i, j \in 1..Len(out) :
                          i < j => /\ FracGeq(out[i].score, out[j].score)
                                   /\ out[i].source_file # out[j].source_file
                   /\ \A i \in 1..Len(out) : \A j \in 1..Len(out[i].chunks) :
                          \E h \in 1..Len(raw) :
                              /\ SourceOf(raw[h]) = out[i].source_file
                              /\ Has(raw[h], "text")
                              /\ raw[h].text = out[i].chunks[j]
                   /\ \A h \in 1..Len(raw) : \E i \in 1..Len(out) :
                          out[i].source_file = SourceOf(raw[h])

\* C21 witness: a group had more hits than the cap and lost one, next to a
\* group of hits without source_file.
C21_Witness ==
    \E t \in Threads :
        /\ pc[t] = "returned" /\ InHybrid(t)
        /\ frame[t].cap = 1
        /\ Len(frame[t].raw) = 3
        /\ Len(frame[t].out) = 2
        /\ \E i \in 1..2 : frame[t].out[i].source_file = "unknown"
        /\ \E i \in 1..2 : frame[t].out[i].source_file = "a.txt"

----------------------------------------------------------------------------
(* keyword_score called directly (hybrid_search.py lines 14-25) *)

MaxWords == 2

\* strings of up to MaxWords pieces: words in either case and punctuation
ScoreTexts ==
    UNION {[1..n -> {"payment", "Payment", "urgent", "!?"}] : n \in 0..MaxWords}

KeywordScoreCall(t, query, text) ==
    /\ pc[t] = "idle"
    /\ calls < MaxCalls
    /\ calls' = calls + 1
    /\ frame' = [frame EXCEPT ![t] =
           [op |-> "keyword_score", query |-> query, text |-> text,
            out |-> keyword_score(query, text)]]
    /\ pc' = [pc EXCEPT ![t] = "returned"]
    /\ UNCHANGED <<storeVars, lock, auditLog, rules, clock, faults>>

NextKeyword ==
    \/ \E query \in ScoreTexts, text \in ScoreTexts :
           KeywordScoreCall(Caller, query, text)
    \/ Return(Caller)

SpecKeyword == InitUrgent /\ [][NextKeyword]_vars

InKeywordScore(t) == frame[t].op = "keyword_score"

\* C22 (as claimed): keyword_score(query, query) is 1.0 for every non-empty
\* query, and keyword_score("", text) is 0.0 for every text.
C22_SelfScoreIsOne ==
    \A t \in Threads :
        (pc[t] = "returned" /\ InKeywordScore(t))
            => /\ (frame[t].query # Empty /\ frame[t].text = frame[t].query)
                      => FracEq(frame[t].out, Frac(1, 1))
               /\ frame[t].query = Empty => FracEq(frame[t].out, Frac(0, 1))

\* C22 (amended): keyword_score(query, query) is 1.0 for every query that
\* holds at least one word token, and 0.0 for a query that holds none;
\* keyword_score("", text) is 0.0 for every text.
C22_SelfScoreIsOneWithTokens ==
    \A t \in Threads :
        (pc[t] = "returned" /\ InKeywordScore(t))
            => /\ (Tokens(frame[t].query) # {} /\ frame[t].text = frame[t].query)
                      => FracEq(frame[t].out, Frac(1, 1))
               /\ Tokens(frame[t].query) = {} => FracEq(frame[t].out, Frac(0, 1))
               /\ frame[t].query = Empty => FracEq(frame[t].out, Frac(0, 1))

\* C22 witness: a query that repeats a word in another case has been scored
\* against itself.
C22_Witness ==
    \E t \in Threads :
        /\ pc[t] = "returned" /\ InKeywordScore(t)
        /\ frame[t].query = <<"payment", "Payment">>
        /\ frame[t].text = frame[t].query

----------------------------------------------------------------------------
(* The order of the steps of route_from_search *)

\* C23: route_from_search runs guard, search, classify, route, decision
\* audit, execute, execution audit in that order.  A request whose executor
\* has run had the capability and a search result, and wrote its decision
\* record before the executor's record; a request that was denied or that
\* failed has not run the executor; the records of a request are a prefix of
\* decision, workflow_execution, executed, or the one record of its failure.
C23_ExecuteOnlyAfterGuardAndAudit ==
    \A t \in Threads :
        InRoute(t)
            => LET evs == Events(RequestRecords(frame[t].req))
                   full == <<ROUTE_DECISION, "workflow_execution", ROUTE_EXECUTED>>
               IN  /\ frame[t].executed
                          => /\ "execute_workflow" \in ROLE_CAPABILITIES[frame[t].role]
                             /\ frame[t].exc = "none"
                             /\ Has(frame[t], "results") /\ frame[t].results # << >>
                             /\ Has(frame[t], "decision")
                             /\ Len(evs) >= 2
                             /\ evs[1] = ROUTE_DECISION
                             /\ evs[2] = "workflow_execution"
                   /\ (pc[t] \in {"rs_except", "raised"} \/ frame[t].exc # "none")
                          => ~frame[t].executed
                   /\ \/ evs = SubSeq(full, 1, Len(evs))
                      \/ evs \in {<<ROUTE_DENIED>>, <<ROUTE_FAILED>>}
                   /\ Has(frame[t], "decision") => Has(frame[t], "results")

\* C23 witness: one request has run the executor after its decision record
\* and returned, and another was denied without running it.
C23_Witness ==
    \E t, u \in Threads :
        /\ InRoute(t) /\ frame[t].executed /\ pc[t] = "returned"
        /\ InRoute(u) /\ pc[u] = "raised" /\ ~frame[u].executed
        /\ frame[u].exc = "security.guard.PermissionDenied"
        /\ Len(RequestRecords(frame[t].req)) = 3

----------------------------------------------------------------------------
(* WorkflowRouter built from a rule source that may be malformed
   (workflow/router.py lines 22-57) *)

\* what may be wrong with a rules file: nothing; text that is not YAML; a
\* YAML list at top level; "routes:" with no value; a first rule whose
\* "when:" has no value
Defects == {"none", "syntax", "top_level_list", "routes_null", "when_null"}

\* well-formed contents with at most one rule
LoadFiles == {rs \in RuleFiles : Len(RoutesOf(rs)) <= 1}

RuleSources == [file : LoadFiles, defect : Defects]

\* lines 22-24: yaml.safe_load raises on text that is not YAML and on
\* nothing else; no shape is checked
LoadAccepts(source) == source.defect # "syntax"

\* lines 37-57 on what was loaded: the exception route raises, "none" if it
\* returns
RouteError(source) ==
    CASE source.defect = "top_level_list" -> "AttributeError"  \* self.rules.get
      [] source.defect = "routes_null" ->
             IF Has(source.file, "routes") THEN "TypeError"     \* for rule in None
             ELSE "none"
      [] source.defect = "when_null" ->
             IF Len(RoutesOf(source.file)) >= 1
                /\ Has(RoutesOf(source.file)[1], "when")
             THEN "TypeError"                    \* "classification" in None
             ELSE "none"
      [] OTHER -> "none"

\* WorkflowRouter() at the import of app/main.py (line 48)
WorkflowRouterInit ==
    /\ Booting
    /\ pc' = [t \in Threads |->
                 IF LoadAccepts(rules) THEN "idle" ELSE "crashed"]
    /\ UNCHANGED <<storeVars, lock, auditLog, rules, clock, frame, calls, faults>>

\* route(classification=..., text=...) on the router that was built
LoadedRouteCall(t, classification, text) ==
    /\ pc[t] = "idle"
    /\ calls < MaxCalls
    /\ calls' = calls + 1
    /\ LET e == RouteError(rules)
       IN  IF e = "none"
           THEN /\ pc' = [pc EXCEPT ![t] = "returned"]
                /\ frame' = [frame EXCEPT ![t] =
                       [op |-> "loaded_route", classification |-> classification,
                        text |-> text, exc |-> e,
                        decision |-> route(rules.file, classification, text)]]
           ELSE /\ pc' = [pc EXCEPT ![t] = "raised"]
                /\ frame' = [frame EXCEPT ![t] =
                       [op |-> "loaded_route", classification |-> classification,
                        text |-> text, exc |-> e]]
    /\ UNCHANGED <<storeVars, lock, auditLog, rules, clock, faults>>

InitLoad ==
    /\ index = << >>
    /\ metadata = << >>
    /\ diskIndex = WriteIndex(<< >>)
    /\ diskMeta = WriteMetadata(<< >>)
    /\ lock = NoThread
    /\ auditLog = << >>
    /\ rules \in RuleSources
    /\ clock = 0
    /\ pc = [t \in Threads |-> "boot"]
    /\ frame = [t \in Threads |-> Idle]
    /\ calls = 0
    /\ faults = 0

NextLoad ==
    \/ WorkflowRouterInit
    \/ \E classification \in RouteClassifications, text \in {TextA, TextB} :
           LoadedRouteCall(Caller, classification, text)
    \/ Return(Caller)

SpecLoad == InitLoad /\ [][NextLoad]_vars

\* C24 (as claimed): a router that was built has a well-formed rule source,
\* and none of its route calls raises.
C24_RouteNeverRaises ==
    /\ (\E t \in Threads : pc[t] \notin {"boot", "crashed"})
           => rules.defect = "none"
    /\ \A t \in Threads : frame[t].op = "loaded_route" => pc[t] # "raised"

----------------------------------------------------------------------------
(* Termination of the adds under fair scheduling *)

\* the steps of a started add of thread t: everything but the start of a new
\* call and the caller taking the result
AddProgress(t) ==
    \/ AddDocumentLock(t)
    \/ AddDocumentIndexAdd(t)
    \/ AddDocumentSetDefault(t)
    \/ AddDocumentAppend(t)
    \/ AddEmbeddingsLock(t)
    \/ AddEmbeddingsIndexAdd(t)
    \/ AddEmbeddingsLoop(t)
    \/ PersistIndex(t)
    \/ PersistIndexFails(t)
    \/ PersistMetadata(t)
    \/ PersistMetadataFails(t)

\* the interpreter keeps running every thread that can take a step
SpecFair == InitUrgent /\ [][Next]_vars /\ \A t \in Threads : WF_vars(AddProgress(t))

WaitingForLock(t) == pc[t] \in {"ad_lock", "ae_lock"}
OutsideCritical(t) == pc[t] \in {"idle", "ad_lock", "ae_lock", "returned", "raised"}

\* C25: a thread that is outside the critical section of add_document and
\* add_embeddings does not hold the store lock, whether it left by returning
\* or by an exception of the index append or of a persistence write; and
\* under fair scheduling every caller waiting for the lock ends its call, by
\* returning or by raising.
C25_LockReleasedAndAddsTerminate ==
    /\ [](\A t \in Threads : OutsideCritical(t) => lock # t)
    /\ \A t \in Threads :
           WaitingForLock(t) ~> (pc[t] \in {"returned", "raised"})

\* C25 witness: an add failed in a persistence write while the other thread
\* waits for the lock, which is free.
C25_Witness ==
    \E t, u \in Threads :
        /\ pc[t] = "raised" /\ InStoreCall(t) /\ frame[t].exc = "IOError"
        /\ WaitingForLock(u)
        /\ lock = NoThread

----------------------------------------------------------------------------
(* search running beside an add *)

\* thread u is inside add_document between index.add and metadata.append
BetweenAppends(u) == pc[u] \in {"ad_setdefault", "ad_append"}

\* r is a copy of a ledger record with the score set
CopyOfLedgerRecord(r) ==
    \E i \in 1..Len(metadata) : r = [score |-> r.score] @@ metadata[i]

\* C26: search takes no lock and runs beside an add that is between its
\* index append and its ledger append.  Every hit it has collected is a copy
\* of a record of the ledger, with its score; it has collected at most k hits
\* (none when k <= 0); and no step of a search changes the index, the ledger,
\* either artifact or the lock.
C26_SearchBesideAdd ==
    /\ [](\A t \in Threads :
              (InSearch(t) /\ Has(frame[t], "results"))
                 => /\ \A j \in 1..Len(frame[t].results) :
                           CopyOfLedgerRecord(frame[t].results[j])
                    /\ Len(frame[t].results)
                           <= (IF frame[t].k > 0 THEN frame[t].k ELSE 0))
    /\ [][\A t \in Threads :
              (pc'[t] # pc[t] /\ (InSearch(t) \/ InSearch(t)'))
                 => UNCHANGED <<storeVars, lock>>]_vars

\* C26 witness: a search has returned while an add holds the lock between
\* its two appends; the index gave it a position that has no ledger record
\* yet, and it returned the other hit only.
C26_Witness ==
    \E t, u \in Threads :
        /\ pc[t] = "returned" /\ InSearch(t) /\ Has(frame[t], "hits")
        /\ BetweenAppends(u) /\ lock = u
        /\ Len(index) > Len(metadata)
        /\ \E j \in 1..Len(frame[t].hits) : frame[t].hits[j].id = Len(metadata)
        /\ Len(frame[t].results) = 1
        /\ Len(frame[t].hits) = 2

====
